---- MODULE Spec2Model ----
(***************************************************************************)
(* A model of static/app.js: the upload controller (drop / file-picker     *)
(* listeners, the async function upload), the section renderer renderAll,  *)
(* the formatters esc / bytes / short and the bar chart drawBars.          *)
(*                                                                         *)
(* JavaScript values are records [t, s, n]: t is the type tag, s the       *)
(* characters of a string, n the value of a number or boolean.  A string   *)
(* is a sequence of one-character strings, so that escaping, endsWith and  *)
(* slicing are computed character by character.  An optional object or     *)
(* array is a sequence of length 0 (missing) or 1 (present).               *)
(***************************************************************************)
EXTENDS Integers, Sequences, FiniteSets

VARIABLES
  drag,        \* drop.classList contains 'drag'
  event,       \* what last ran upload's code: [type, files, by, ok, data]
  uploads,     \* the calls of upload(f) so far: [pc, name, ok], in call order;
               \* ok is res.ok while the call is suspended at res.json()
  containers,  \* meta / archive / matrix / network: [display, html, by]
  netChart,    \* the #netChart element: <<>> when absent, <<rows>> when present
  alerts,      \* the alert() calls so far: [by, msg]
  requests,    \* the fetch('/analyze') calls so far: the file names posted
  domLog,      \* the elements that run of upload's code wrote, in order
  pendingAtLastStart  \* the uploads in flight when upload() was last called

vars == <<drag, event, uploads, containers, netChart, alerts, requests,
          domLog, pendingAtLastStart>>

\* ------------------------------------------------------------------ bounds

MaxUploads == 2
MaxDrop == 2
MaxNet == 13

\* ------------------------------------------------------- program constants

ShortLen == 60
ChartMax == 12
KiloByte == 1024

\* -------------------------------------------------------------- JS values

Undef == [t |-> "undefined", s |-> <<>>, n |-> 0]
Null == [t |-> "null", s |-> <<>>, n |-> 0]
Str(s) == [t |-> "string", s |-> s, n |-> 0]
Num(n) == [t |-> "number", s |-> <<>>, n |-> n]
Bool(b) == [t |-> "boolean", s |-> <<>>, n |-> IF b THEN 1 ELSE 0]

Nullish(v) == v.t \in {"undefined", "null"}

Truthy(v) ==
  CASE v.t = "string" -> v.s # <<>>
    [] v.t = "number" -> v.n # 0
    [] v.t = "boolean" -> v.n = 1
    [] OTHER -> FALSE

\* a || b
Or(a, b) == IF Truthy(a) THEN a ELSE b

\* a ?? b
Coalesce(a, b) == IF Nullish(a) THEN b ELSE a

DigitChars == <<"0", "1", "2", "3", "4", "5", "6", "7", "8", "9">>

RECURSIVE Digits(_)
Digits(n) ==
  IF n < 10 THEN <<DigitChars[n + 1]>>
  ELSE Digits(n \div 10) \o <<DigitChars[(n % 10) + 1]>>

\* String(v), also what a template literal `${v}` inserts
StringOf(v) ==
  CASE v.t = "undefined" -> <<"u", "n", "d", "e", "f", "i", "n", "e", "d">>
    [] v.t = "null" -> <<"n", "u", "l", "l">>
    [] v.t = "string" -> v.s
    [] v.t = "number" -> IF v.n < 0 THEN <<"-">> \o Digits(-v.n) ELSE Digits(v.n)
    [] OTHER -> IF v.n = 1 THEN <<"t", "r", "u", "e">>
                ELSE <<"f", "a", "l", "s", "e">>

Take(s, k) == SubSeq(s, 1, IF Len(s) < k THEN Len(s) ELSE k)

RECURSIVE Flatten(_)
Flatten(ss) == IF ss = <<>> THEN <<>> ELSE Head(ss) \o Flatten(Tail(ss))

\* ------------------------------------------------------------- formatters

EscChar(c) ==
  CASE c = "&" -> <<"&", "a", "m", "p", ";">>
    [] c = "<" -> <<"&", "l", "t", ";">>
    [] c = ">" -> <<"&", "g", "t", ";">>
    [] c = "\"" -> <<"&", "q", "u", "o", "t", ";">>
    [] c = "'" -> <<"&", "#", "3", "9", ";">>
    [] OTHER -> <<c>>

esc(v) ==
  LET s == IF Nullish(v) THEN <<>> ELSE StringOf(v)
  IN Flatten([i \in 1..Len(s) |-> EscChar(s[i])])

\* Number(v): [nan, n].  Strings are decimal digit strings or not numbers.
IsDigits(s) == \A i \in 1..Len(s) : \E d \in 1..10 : DigitChars[d] = s[i]

RECURSIVE ParseDigits(_)
ParseDigits(s) ==
  IF s = <<>> THEN 0
  ELSE 10 * ParseDigits(SubSeq(s, 1, Len(s) - 1))
       + (CHOOSE d \in 0..9 : DigitChars[d + 1] = s[Len(s)])

ToNumber(v) ==
  CASE v.t = "number" -> [nan |-> FALSE, n |-> v.n]
    [] v.t = "boolean" -> [nan |-> FALSE, n |-> v.n]
    [] v.t = "null" -> [nan |-> FALSE, n |-> 0]
    [] v.t = "string" /\ IsDigits(v.s) -> [nan |-> FALSE, n |-> ParseDigits(v.s)]
    [] OTHER -> [nan |-> TRUE, n |-> 0]

Units == << <<"B">>, <<"K", "B">>, <<"M", "B">>, <<"G", "B">> >>

\* while(n>=1024&&i<u.length-1){n/=1024;i++}: the divisions by 1024 are exact
RECURSIVE UnitIndex(_, _)
UnitIndex(n, i) ==
  IF n >= KiloByte ^ (i + 1) /\ i < Len(Units) - 1 THEN UnitIndex(n, i + 1) ELSE i

\* x.toFixed(1) for x = num/den >= 0, in tenths: the nearest tenth, ties upwards
Tenths(num, den) == (20 * num + den) \div (2 * den)

FixedOne(t) == Digits(t \div 10) \o <<".">> \o Digits(t % 10)

\* bytes(n), for the non-negative integers (and NaN) the model's documents hold
bytes(v) ==
  IF Nullish(v) \/ (v.t = "string" /\ v.s = <<>>) THEN <<>>
  ELSE LET x == ToNumber(v)
           i == IF x.nan THEN 0 ELSE UnitIndex(x.n, 0)
       IN (IF i = 0 THEN Digits(x.n) ELSE FixedOne(Tenths(x.n, KiloByte ^ i)))
          \o <<" ">> \o Units[i + 1]

\* new URL(u) for the URLs the model's documents hold: "<scheme>://<host><path>"
\* with an http(s) scheme, no port, query or fragment; anything without "://"
\* or with an empty scheme or host does not parse.
SchemeEnd(s) ==
  {i \in 2..(Len(s) - 2) : s[i] = ":" /\ s[i + 1] = "/" /\ s[i + 2] = "/"}

ParseURL(s) ==
  IF SchemeEnd(s) = {} THEN [ok |-> FALSE, hostname |-> <<>>, pathname |-> <<>>]
  ELSE LET k == CHOOSE i \in SchemeEnd(s) : \A j \in SchemeEnd(s) : i <= j
           rest == SubSeq(s, k + 3, Len(s))
           slashes == {i \in 1..Len(rest) : rest[i] = "/"}
           h == IF slashes = {} THEN Len(rest)
                ELSE (CHOOSE i \in slashes : \A j \in slashes : i <= j) - 1
           path == SubSeq(rest, h + 1, Len(rest))
       IN [ok |-> h > 0,
           hostname |-> SubSeq(rest, 1, h),
           pathname |-> IF path = <<>> THEN <<"/">> ELSE path]

\* short(u): [threw, s].  The catch branch calls .slice on (u||''), which is
\* a TypeError when u is truthy and not a string.
short(v) ==
  LET x == ParseURL(StringOf(v))
      w == Or(v, Str(<<>>))
  IN IF x.ok THEN [threw |-> FALSE, s |-> Take(x.hostname \o x.pathname, ShortLen)]
     ELSE IF w.t = "string" THEN [threw |-> FALSE, s |-> Take(w.s, ShortLen)]
     ELSE [threw |-> TRUE, s |-> <<>>]

\* ------------------------------------------------------------- string literals

WebScan == <<"W", "e", "b", " ", "s", "c", "a", "n">>
V1 == <<"v", "1">>
Html5Zip == <<"H", "T", "M", "L", "5", " ", "Z", "i", "p">>
Desktop == <<"D", "e", "s", "k", "t", "o", "p">>
EnUS == <<"e", "n", "-", "U", "S">>
Dash == <<"-">>
UploadFailed == <<"U", "p", "l", "o", "a", "d", " ", "f", "a", "i", "l", "e", "d">>
DirGlyph == <<"D">>
FileGlyph == <<"F">>

\* ------------------------------------------------------------------ markup
\* A container's innerHTML is a sequence of blocks [tag, cells]; a cell
\* [slot, text] is one interpolation ${...} of the template with the text it
\* inserted.  The static text of a template is its block's tag.

Cell(slot, text) == [slot |-> slot, text |-> text]
Block(tag, cells) == [tag |-> tag, cells |-> cells]

Sections == {"meta", "archive", "matrix", "network"}

Cleared == [display |-> "none", html |-> <<>>, by |-> 0]

MetaFields ==
  {"scan_type", "api_version", "unix_timestamp", "scan_duration", "creative_type",
   "original_name", "device", "language", "user_agent"}

EmptyObject == [k \in MetaFields |-> Undef]

\* lines 27-45: previewBtn and the Metadata section
MetaHtml(data, name) ==
  LET md == IF data.metadata = <<>> THEN EmptyObject ELSE data.metadata[1]
      E == Str(<<>>)
  IN << Block("h2", <<>>),
        Block("a", <<Cell("run_id", StringOf(data.run_id))>>),
        Block("kv",
          << Cell("scan_type", esc(Or(md.scan_type, Str(WebScan)))),
             Cell("api_version", esc(Or(md.api_version, Str(V1)))),
             Cell("unix_timestamp", esc(Str(StringOf(Or(md.unix_timestamp, E))))),
             Cell("scan_duration", esc(Str(StringOf(Or(md.scan_duration, E))))),
             Cell("creative_type", esc(Or(md.creative_type, Str(Html5Zip)))),
             Cell("original_name", esc(Or(Or(md.original_name, name), E))),
             Cell("device", esc(Or(md.device, Str(Desktop)))),
             Cell("language", esc(Or(md.language, Str(EnUS)))),
             Cell("user_agent", esc(Or(md.user_agent, E))) >>) >>

ListOf(opt) == IF opt = <<>> THEN <<>> ELSE opt[1]

\* lines 49-58: the Archive section
ArchiveHtml(data) ==
  LET es == ListOf(data.archive)
  IN << Block("h2", <<>>) >> \o
     [i \in 1..Len(es) |->
        Block("tr",
          << Cell("is_dir", IF Truthy(es[i].is_dir) THEN DirGlyph ELSE FileGlyph),
             Cell("name", esc(es[i].name)),
             Cell("size", bytes(es[i].size)),
             Cell("compressed", bytes(es[i].compressed)) >>)]

\* lines 62-71: thumbRow
ThumbRow(data) ==
  LET ts == ListOf(data.thumbnails)
  IN [i \in 1..Len(ts) |->
        Block("figure",
          << Cell("run_id", StringOf(data.run_id)),
             Cell("t_sec", StringOf(ts[i].t_sec)),
             Cell("t_sec", StringOf(ts[i].t_sec)),
             Cell("png_b64", StringOf(ts[i].png_b64)),
             Cell("t_sec", StringOf(ts[i].t_sec)),
             Cell("t_sec", StringOf(ts[i].t_sec)) >>)]

\* lines 73-79: tests
TestRows(data) ==
  LET rs == ListOf(data.results)
  IN [i \in 1..Len(rs) |->
        Block("tr",
          << Cell("category", esc(Or(rs[i].category, Str(Dash)))),
             Cell("label", esc(rs[i].label)),
             Cell("status", StringOf(rs[i].status)),
             Cell("value", esc(rs[i].value)) >>
          \o (IF Truthy(rs[i].help) THEN <<Cell("help", esc(rs[i].help))>>
              ELSE <<>>))]

\* lines 80-82: the Checks section
MatrixHtml(data) == << Block("h2", <<>>) >> \o ThumbRow(data) \o TestRows(data)

\* line 86: net
NetOf(data) ==
  IF data.runtime # <<>> /\ data.runtime[1].network_requests # <<>>
  THEN data.runtime[1].network_requests[1] ELSE <<>>

\* short(n.url) throws for some entry (in nrows, before network is written)
NetThrows(net) == \E i \in 1..Len(net) : short(net[i].url).threw

\* lines 88-101: nrows and the Network section
NetworkHtml(net) ==
  << Block("h2", <<>>), Block("netChart", <<>>) >> \o
  [i \in 1..Len(net) |->
     Block("tr",
       << Cell("url", esc(Str(short(net[i].url).s))),
          Cell("status", StringOf(Coalesce(net[i].status, Str(<<>>)))),
          Cell("protocol", esc(Or(net[i].protocol, Str(<<>>)))),
          Cell("enc", esc(Or(net[i].enc, Str(<<>>)))),
          Cell("bytes", IF Truthy(net[i].bytes) THEN bytes(net[i].bytes) ELSE <<>>),
          Cell("type", esc(Or(net[i].type, Str(<<>>)))) >>)]

\* Mutant of ChartData: the .slice(0,12) forgotten
ChartDataUnsliced(net) ==
  [i \in 1..Len(net) |->
     [name |-> short(net[i].url).s, size |-> ToNumber(Or(net[i].bytes, Num(0)))]]

\* line 104: net.map(n=>({name: short(n.url), size: Number(n.bytes||0)})).slice(0,12)
ChartData(net) ==
  LET all == [i \in 1..Len(net) |->
                [name |-> short(net[i].url).s,
                 size |-> ToNumber(Or(net[i].bytes, Num(0)))]]
  IN Take(all, ChartMax)

RECURSIVE MaxOf(_, _)
MaxOf(sizes, m) ==
  IF sizes = <<>> THEN m
  ELSE MaxOf(Tail(sizes), IF Head(sizes) > m THEN Head(sizes) ELSE m)

\* line 115: Math.max(...data.map(d=>d.size), 1)
ChartScale(data) == MaxOf([i \in 1..Len(data) |-> data[i].size.n], 1)

\* lines 113-124: the rows drawBars writes; width is (size/max*100).toFixed(1)
\* in tenths of a percent.  A NaN size makes every width NaN (width -1 here).
drawBars(data) ==
  LET max == ChartScale(data)
      nan == \E i \in 1..Len(data) : data[i].size.nan
  IN [i \in 1..Len(data) |->
        [name |-> esc(Str(data[i].name)),
         width |-> IF nan THEN -1 ELSE Tenths(data[i].size.n * 100, max),
         size |-> bytes(IF data[i].size.nan THEN Str(<<"x">>)
                        ELSE Num(data[i].size.n))]]

\* Mutant of renderAll: the Network section written without the net.length test
renderAllAlwaysNetwork(u, data, name, cs, chart) ==
  LET net == NetOf(data)
  IN [threw |-> FALSE,
      containers |->
        [cs EXCEPT
           !["meta"] = [display |-> "block", html |-> MetaHtml(data, name), by |-> u],
           !["archive"] = [display |-> "block", html |-> ArchiveHtml(data), by |-> u],
           !["matrix"] = [display |-> "block", html |-> MatrixHtml(data), by |-> u],
           !["network"] = [display |-> "block", html |-> NetworkHtml(net), by |-> u]],
      netChart |-> <<drawBars(ChartData(net))>>,
      log |-> <<"meta", "archive", "matrix", "network", "netChart">>]

\* lines 25-106: renderAll(data, name) run by upload u on the DOM (cs, chart):
\* what it leaves, the elements it wrote in order, and whether it threw.
renderAll(u, data, name, cs, chart) ==
  LET net == NetOf(data)
      three == [cs EXCEPT
                  !["meta"] = [display |-> "block", html |-> MetaHtml(data, name), by |-> u],
                  !["archive"] = [display |-> "block", html |-> ArchiveHtml(data), by |-> u],
                  !["matrix"] = [display |-> "block", html |-> MatrixHtml(data), by |-> u]]
      order == <<"meta", "archive", "matrix">>
  IN IF Len(net) = 0
     THEN [threw |-> FALSE, containers |-> three, netChart |-> chart, log |-> order]
     ELSE IF NetThrows(net)
     THEN [threw |-> TRUE, containers |-> three, netChart |-> chart, log |-> order]
     ELSE [threw |-> FALSE,
           containers |-> [three EXCEPT !["network"] =
                             [display |-> "block", html |-> NetworkHtml(net), by |-> u]],
           netChart |-> <<drawBars(ChartData(net))>>,
           log |-> order \o <<"network", "netChart">>]

\* ------------------------------------------------------ upload controller

\* A document none of whose fields is present
NoDoc ==
  [error |-> Undef, run_id |-> Undef, metadata |-> <<>>, archive |-> <<>>,
   thumbnails |-> <<>>, results |-> <<>>, runtime |-> <<>>]

\* What last ran upload's code, with what it carried: a drop or change event
\* that called upload (its files), or the continuation of upload `by` after
\* res.json() (the response's ok flag and its parsed body).
Ev(type, files, by, ok, data) ==
  [type |-> type, files |-> files, by |-> by, ok |-> ok, data |-> data]

Zip == <<".", "z", "i", "p">>

\* Mutant of EndsWithZip: x.name.includes('.zip')
IncludesZip(name) ==
  \E i \in 1..Len(name) :
    i + Len(Zip) - 1 <= Len(name) /\ SubSeq(name, i, i + Len(Zip) - 1) = Zip

\* x.name.endsWith('.zip')
EndsWithZip(name) ==
  Len(name) >= Len(Zip) /\ SubSeq(name, Len(name) - Len(Zip) + 1, Len(name)) = Zip

\* line 12: [...files].find(x=>x.name.endsWith('.zip')): <<>> or <<name>>
FindZip(files) ==
  LET hits == {i \in 1..Len(files) : EndsWithZip(files[i])}
  IN IF hits = {} THEN <<>>
     ELSE <<files[CHOOSE i \in hits : \A j \in hits : i <= j]>>

InFlight == {u \in 1..Len(uploads) : uploads[u].pc \in {"fetch", "json"}}

\* Mutant of ClearAll: the Network container left out of the list
ClearAllButNetwork(cs) ==
  [c \in Sections |-> IF c = "network" THEN cs[c] ELSE Cleared]

\* Mutant of ClearAll: the containers hidden but not emptied
HideAll(cs) == [c \in Sections |-> [cs[c] EXCEPT !.display = "none"]]

\* line 17: every container hidden and emptied (which removes #netChart)
ClearAll(cs) == [c \in Sections |-> Cleared]

\* lines 16-19: upload(f) up to its first await
Start(name, maxUploads) ==
  /\ Len(uploads) < maxUploads
  /\ containers' = ClearAll(containers)
  /\ netChart' = <<>>
  /\ domLog' = <<"meta", "archive", "matrix", "network">>
  /\ requests' = Append(requests, name)
  /\ uploads' = Append(uploads, [pc |-> "fetch", name |-> name, ok |-> FALSE])
  /\ pendingAtLastStart' = InFlight
  /\ UNCHANGED alerts

\* line 8: dragenter, dragover
DragEnter ==
  /\ drag' = TRUE
  /\ UNCHANGED <<event, uploads, containers, netChart, alerts, requests,
                 domLog, pendingAtLastStart>>

\* line 9: dragleave
DragLeave ==
  /\ drag' = FALSE
  /\ UNCHANGED <<event, uploads, containers, netChart, alerts, requests,
                 domLog, pendingAtLastStart>>

\* lines 9 and 11-13: both listeners of a drop event carrying `files`
Drop(files, maxUploads) ==
  /\ drag' = FALSE
  /\ IF FindZip(files) # <<>>
     THEN /\ event' = Ev("drop", files, 0, FALSE, NoDoc)
          /\ Start(FindZip(files)[1], maxUploads)
     ELSE UNCHANGED <<event, uploads, containers, netChart, alerts, requests,
                      domLog, pendingAtLastStart>>

\* line 14: change on the file input whose selection is `files`
FileChange(files, maxUploads) ==
  /\ files # <<>>
  /\ event' = Ev("change", files, 0, FALSE, NoDoc)
  /\ Start(files[1], maxUploads)
  /\ UNCHANGED drag

\* line 19: fetch resolves with a response whose ok flag is `ok`
FetchResolve(u, ok) ==
  /\ u \in 1..Len(uploads) /\ uploads[u].pc = "fetch"
  /\ uploads' = [uploads EXCEPT ![u].pc = "json", ![u].ok = ok]
  /\ UNCHANGED <<drag, event, containers, netChart, alerts, requests, domLog,
                 pendingAtLastStart>>

\* line 19: fetch rejects (no transport); upload's promise rejects, unhandled
FetchReject(u) ==
  /\ u \in 1..Len(uploads) /\ uploads[u].pc = "fetch"
  /\ uploads' = [uploads EXCEPT ![u].pc = "rejected"]
  /\ UNCHANGED <<drag, event, containers, netChart, alerts, requests, domLog,
                 pendingAtLastStart>>

\* line 20: res.json() rejects (the body is not JSON); unhandled as well
JsonReject(u) ==
  /\ u \in 1..Len(uploads) /\ uploads[u].pc = "json"
  /\ uploads' = [uploads EXCEPT ![u].pc = "rejected", ![u].ok = FALSE]
  /\ UNCHANGED <<drag, event, containers, netChart, alerts, requests, domLog,
                 pendingAtLastStart>>

\* Mutant of IsFailure: && for ||
IsFailureBoth(ok, data) == ~ok /\ Truthy(data.error)

\* line 21: !res.ok || data.error
IsFailure(ok, data) == ~ok \/ Truthy(data.error)

\* line 21: data.error || 'Upload failed'
FailureMessage(data) == StringOf(Or(data.error, Str(UploadFailed)))

\* lines 20-22: res.json() resolves with `data` and upload runs to its end
JsonResolve(u, data) ==
  /\ u \in 1..Len(uploads) /\ uploads[u].pc = "json"
  /\ event' = Ev("json", <<>>, u, uploads[u].ok, data)
  /\ IF IsFailure(uploads[u].ok, data)
     THEN /\ alerts' = Append(alerts, [by |-> u, msg |-> FailureMessage(data)])
          /\ uploads' = [uploads EXCEPT ![u].pc = "failed", ![u].ok = FALSE]
          /\ domLog' = <<>>
          /\ UNCHANGED <<containers, netChart>>
     ELSE LET r == renderAll(u, data, Str(uploads[u].name), containers, netChart)
          IN /\ containers' = r.containers
             /\ netChart' = r.netChart
             /\ domLog' = r.log
             /\ uploads' = [uploads EXCEPT
                              ![u].pc = IF r.threw THEN "rejected" ELSE "rendered",
                              ![u].ok = FALSE]
             /\ UNCHANGED alerts
  /\ UNCHANGED <<drag, requests, pendingAtLastStart>>

Init ==
  /\ drag = FALSE
  /\ event = Ev("load", <<>>, 0, FALSE, NoDoc)
  /\ uploads = <<>>
  /\ containers = [c \in Sections |-> Cleared]
  /\ netChart = <<>>
  /\ alerts = <<>>
  /\ requests = <<>>
  /\ domLog = <<>>
  /\ pendingAtLastStart = {}

\* ------------------------------------------------------------- documents

Chars(n, c) == [i \in 1..n |-> c]

Http == <<"h", "t", "t", "p", ":", "/", "/">>
UrlA == Http \o <<"a", ".", "b", "/", "x">>

BaseMeta ==
  [k \in MetaFields |->
     IF k \in {"unix_timestamp", "scan_duration"} THEN Num(7) ELSE Str(<<"m">>)]

BaseEntry ==
  [name |-> Str(<<"i">>), is_dir |-> Bool(FALSE), size |-> Num(2048),
   compressed |-> Num(512)]

BaseThumb == [t_sec |-> Num(3), png_b64 |-> Str(<<"p">>)]

BaseResult ==
  [category |-> Str(<<"c">>), label |-> Str(<<"S", "S", "L">>),
   value |-> Str(<<"P", "a", "s", "s">>), status |-> Str(<<"o", "k">>),
   help |-> Str(<<"h">>)]

BaseNet ==
  [url |-> Str(UrlA), status |-> Num(200), protocol |-> Str(<<"h", "2">>),
   enc |-> Str(<<"b", "r">>), bytes |-> Num(1536), type |-> Str(<<"j", "s">>)]

WithNet(doc, net) == [doc EXCEPT !.runtime = <<[network_requests |-> <<net>>]>>]

BaseDoc ==
  WithNet([error |-> Undef, run_id |-> Str(<<"r", "1">>), metadata |-> <<BaseMeta>>,
           archive |-> <<<<BaseEntry>>>>, thumbnails |-> <<<<BaseThumb>>>>,
           results |-> <<<<BaseResult>>>>, runtime |-> <<>>],
          <<BaseNet>>)

\* The bodies the endpoint answers with in Spec: a full report, one without
\* runtime, one with an empty request list, an error body and an empty error.
Bodies ==
  { BaseDoc,
    [BaseDoc EXCEPT !.runtime = <<>>],
    WithNet(BaseDoc, <<>>),
    [NoDoc EXCEPT !.error = Str(<<"b", "a", "d">>)],
    [NoDoc EXCEPT !.error = Str(<<>>)] }

NameA == <<"a">> \o Zip
NameB == <<"b">> \o Zip
NameT == Zip \o <<"x">>

Names == {NameA, NameB, NameT}

SeqsUpTo(S, n) == UNION {[1..k -> S] : k \in 0..n}

\* Spec: the whole controller, uploads overlapping at will.  The drop and
\* file-picker events carry these file lists.
MainDrops == {<<NameT>>, <<NameT, NameA>>, <<NameB, NameA>>}
PickInputs == {<<>>, <<NameT, NameA>>}

Next ==
  \/ DragEnter
  \/ DragLeave
  \/ \E files \in MainDrops : Drop(files, MaxUploads)
  \/ \E files \in PickInputs : FileChange(files, MaxUploads)
  \/ \E u \in 1..MaxUploads, ok \in BOOLEAN : FetchResolve(u, ok)
  \/ \E u \in 1..MaxUploads : FetchReject(u)
  \/ \E u \in 1..MaxUploads, data \in Bodies : JsonResolve(u, data)
  \/ \E u \in 1..MaxUploads : JsonReject(u)

Spec == Init /\ [][Next]_vars

\* SpecDrop: the drop listener on every list of up to MaxDrop files, with
\* reports rendered in between.
DropInputs == SeqsUpTo(Names, MaxDrop)
DropBodies == {BaseDoc, [NoDoc EXCEPT !.error = Str(<<"b", "a", "d">>)]}

NextDrop ==
  \/ DragEnter
  \/ DragLeave
  \/ \E files \in DropInputs : Drop(files, MaxUploads)
  \/ \E u \in 1..MaxUploads : FetchResolve(u, TRUE)
  \/ \E u \in 1..MaxUploads, data \in DropBodies : JsonResolve(u, data)

SpecDrop == Init /\ [][NextDrop]_vars

\* The state in which one upload, started by dropping <<NameT, NameA>> on the
\* page as loaded, has received a success status and awaits its body.
InitAwaitingBody ==
  /\ drag = FALSE
  /\ event = Ev("drop", <<NameT, NameA>>, 0, FALSE, NoDoc)
  /\ uploads = <<[pc |-> "json", name |-> NameA, ok |-> TRUE]>>
  /\ containers = [c \in Sections |-> Cleared]
  /\ netChart = <<>>
  /\ alerts = <<>>
  /\ requests = <<NameA>>
  /\ domLog = <<"meta", "archive", "matrix", "network">>
  /\ pendingAtLastStart = {}

\* SpecRender: one upload whose response is any document of RenderBodies: the
\* full report with one field replaced by each value of FieldValues, or with
\* one list or object missing or empty.
LongHost == Chars(ShortLen + 1, "w")

FieldValues ==
  { Undef, Null, Str(<<>>), Str(<<"<", "b", ">">>), Str(<<"\"", "&", "'">>),
    Num(0), Num(404), Str(<<"n", "o", " ", "u", "r", "l">>),
    Str(Http \o LongHost \o <<"/", "p">>), Str(LongHost) }

SetField(r, k, v) == [r EXCEPT ![k] = v]

Keys(r) == DOMAIN r

FieldDocs(vals) ==
  {[BaseDoc EXCEPT !.run_id = v] : v \in vals}
  \cup {[BaseDoc EXCEPT !.metadata = <<SetField(BaseMeta, k, v)>>] :
          k \in MetaFields, v \in vals}
  \cup {[BaseDoc EXCEPT !.archive = <<<<SetField(BaseEntry, k, v)>>>>] :
          k \in Keys(BaseEntry), v \in vals}
  \cup {[BaseDoc EXCEPT !.thumbnails = <<<<SetField(BaseThumb, k, v)>>>>] :
          k \in Keys(BaseThumb), v \in vals}
  \cup {[BaseDoc EXCEPT !.results = <<<<SetField(BaseResult, k, v)>>>>] :
          k \in Keys(BaseResult), v \in vals}
  \cup {WithNet(BaseDoc, <<SetField(BaseNet, k, v)>>) : k \in Keys(BaseNet), v \in vals}

PartDocs ==
  { BaseDoc, NoDoc,
    [BaseDoc EXCEPT !.metadata = <<>>],
    [BaseDoc EXCEPT !.archive = <<>>],
    [BaseDoc EXCEPT !.archive = <<<<>>>>],
    [BaseDoc EXCEPT !.thumbnails = <<>>],
    [BaseDoc EXCEPT !.thumbnails = <<<<>>>>],
    [BaseDoc EXCEPT !.results = <<>>],
    [BaseDoc EXCEPT !.results = <<<<>>>>],
    [BaseDoc EXCEPT !.runtime = <<>>],
    [BaseDoc EXCEPT !.runtime = <<[network_requests |-> <<>>]>>],
    WithNet(BaseDoc, <<>>) }

RenderBodies == FieldDocs(FieldValues) \cup PartDocs

NextRender == \E data \in RenderBodies : JsonResolve(Len(uploads), data)

SpecRender == InitAwaitingBody /\ [][NextRender]_vars

\* SpecChart: one upload whose response lists up to MaxNet network requests.
\* Request i has a URL of its own; its bytes are `rest`, except `v` at
\* position k and `w` at the last position.
ByteValues == {Undef, Num(0), Num(1), Num(3)}

NetEntry(i, b) ==
  [BaseNet EXCEPT !.url = Str(Http \o <<"h", "/">> \o Digits(i)), !.bytes = b]

NetList(n, k, v, w, rest) ==
  [i \in 1..n |-> NetEntry(i, IF i = k THEN v ELSE IF i = n THEN w ELSE rest)]

ChartBodies ==
  {WithNet(NoDoc, NetList(n, k, v, w, rest)) :
     n \in 0..MaxNet, k \in 1..MaxNet, v \in ByteValues, w \in ByteValues,
     rest \in ByteValues}

NextChart == \E data \in ChartBodies : JsonResolve(Len(uploads), data)

SpecChart == InitAwaitingBody /\ [][NextChart]_vars

\* ---------------------------------------------------------------- claims

Hidden(c) == containers[c].display = "none" /\ containers[c].html = <<>>

AllCleared == netChart = <<>> /\ \A c \in Sections : Hidden(c)

Latest == Len(uploads)

\* The step in which res.json() of upload u resolved and upload ran to its end;
\* event' then holds the body it parsed.
JsonStep(u) ==
  /\ u \in 1..Len(uploads)
  /\ uploads[u].pc = "json"
  /\ uploads'[u].pc # "json"
  /\ event'.type = "json" /\ event'.by = u

AlertsBy(u) == {i \in 1..Len(alerts) : alerts[i].by = u}

HasRequests(data) ==
  /\ data.runtime # <<>>
  /\ data.runtime[1].network_requests # <<>>
  /\ Len(data.runtime[1].network_requests[1]) > 0

\* C1: a parsed response with a non-success status or a truthy error field
\* shows exactly one notification, the body's error message or 'Upload failed',
\* and writes nothing to the four containers (nor to the chart).
C1_FailureNotifiesOnceWritesNothing ==
  [][\A u \in 1..Len(uploads) :
       (JsonStep(u) /\ (~uploads[u].ok \/ Truthy(event'.data.error)))
       => /\ alerts' = Append(alerts,
                 [by |-> u,
                  msg |-> IF Truthy(event'.data.error)
                          THEN StringOf(event'.data.error) ELSE UploadFailed])
          /\ containers' = containers
          /\ netChart' = netChart
          /\ domLog' = <<>>]_vars

\* C1 witness: HTTP success with a populated error field ended in one alert
\* while the containers showed an earlier report.
C1_Witness ==
  /\ event.type = "json" /\ event.ok /\ Truthy(event.data.error)
  /\ uploads[event.by].pc = "failed"
  /\ Cardinality(AlertsBy(event.by)) = 1
  /\ containers["meta"].html # <<>>

\* C2: every call of upload empties and hides the four containers and posts
\* the file; and while the newest upload is in flight, having started with no
\* other upload in flight, the four containers are empty and hidden.
C2_ClearedWhileSingleUploadInFlight ==
  [][/\ Len(uploads') > Len(uploads)
        => (AllCleared' /\ Len(requests') = Len(requests) + 1)
     /\ (Latest' > 0 /\ Latest' \in InFlight' /\ pendingAtLastStart' = {})
        => AllCleared']_vars

\* C2 witness: a single upload in flight, started over a rendered report.
C2_Witness ==
  /\ Latest = 2 /\ InFlight = {2} /\ pendingAtLastStart = {}
  /\ uploads[1].pc = "rendered" /\ uploads[2].pc = "json"
  /\ AllCleared

\* C3 as stated: once a newer upload has started, no container shows content
\* rendered from the document of an earlier upload.
C3_NoContentOfEarlierUpload ==
  \A c \in Sections : containers[c].html # <<>> => containers[c].by = Latest

\* C3 amended: whatever a container shows was written after the newest upload
\* started, by the newest upload or by one still in flight at that start.
C3_ContentWrittenAfterLatestStart ==
  \A c \in Sections :
    containers[c].html # <<>>
    => containers[c].by = Latest \/ containers[c].by \in pendingAtLastStart

\* C3 witness: a newer upload has resolved and the Network container still
\* shows the report of an earlier one, which was in flight at its start.
C3_Witness ==
  /\ Latest = 2 /\ InFlight = {}
  /\ containers["network"].html # <<>> /\ containers["network"].by = 1
  /\ containers["meta"].by = 2
  /\ pendingAtLastStart = {1}

RenderedAlone(u, data) ==
  renderAll(u, data, Str(uploads[u].name), ClearAll(containers), <<>>)

\* C5: when two uploads overlapped and both responses have resolved, the four
\* containers are those the last-resolved response alone determines (stated
\* for a last response that renders).
C5_LastResolvedDeterminesContainers ==
  [][\A u \in 1..Len(uploads) :
       (/\ JsonStep(u) /\ uploads'[u].pc = "rendered"
        /\ pendingAtLastStart # {}
        /\ \A w \in 1..Len(uploads) : uploads'[w].pc \in {"rendered", "failed"})
       => /\ containers' = RenderedAlone(u, event'.data).containers
          /\ netChart' = RenderedAlone(u, event'.data).netChart]_vars

\* C6: every upload whose transport has settled is Rendered, or Failed with
\* exactly one notification of its own.
C6_SettledIsRenderedOrNotified ==
  \A u \in 1..Len(uploads) :
    uploads[u].pc \notin {"fetch", "json"}
    => \/ uploads[u].pc = "rendered"
       \/ uploads[u].pc = "failed" /\ Cardinality(AlertsBy(u)) = 1

\* "ends with .zip", character by character
IsZipName(name) ==
  /\ Len(name) >= 4
  /\ name[Len(name) - 3] = "." /\ name[Len(name) - 2] = "z"
  /\ name[Len(name) - 1] = "i" /\ name[Len(name)] = "p"

ZipPositions(files) == {i \in 1..Len(files) : IsZipName(files[i])}

\* C7: a drop none of whose files ends in '.zip' starts no upload, issues no
\* request, shows no notification and leaves the containers as they were; a
\* drop with such a file starts exactly one upload, for the first such file.
C7_DropStartsFirstZipOnly ==
  [][\A files \in DropInputs :
       Drop(files, MaxUploads)
       => IF ZipPositions(files) = {}
          THEN UNCHANGED <<uploads, requests, alerts, containers, netChart>>
          ELSE LET k == CHOOSE i \in ZipPositions(files) :
                          \A j \in ZipPositions(files) : i <= j
               IN /\ Len(uploads') = Len(uploads) + 1
                  /\ SubSeq(uploads', 1, Len(uploads)) = uploads
                  /\ uploads'[Len(uploads')].name = files[k]
                  /\ uploads'[Len(uploads')].pc = "fetch"
                  /\ requests' = Append(requests, files[k])
                  /\ alerts' = alerts]_vars

\* C7 witness: a drop whose first file is not a '.zip' and whose second is
\* started one upload, for the second, over a rendered report.
C7_Witness ==
  /\ event.type = "drop" /\ Len(event.files) = 2
  /\ ~IsZipName(event.files[1]) /\ IsZipName(event.files[2])
  /\ Latest = 2 /\ uploads[1].pc = "rendered"
  /\ uploads[2].name = event.files[2] /\ uploads[2].pc = "fetch"
  /\ requests = <<uploads[1].name, event.files[2]>>

Entities ==
  { <<"&", "a", "m", "p", ";">>, <<"&", "l", "t", ";">>, <<"&", "g", "t", ";">>,
    <<"&", "q", "u", "o", "t", ";">>, <<"&", "#", "3", "9", ";">> }

\* No HTML-significant character in `text` outside an entity
Escaped(text) ==
  \A i \in 1..Len(text) :
    /\ text[i] \notin {"<", ">", "\"", "'"}
    /\ text[i] = "&"
       => \E e \in Entities :
            i + Len(e) - 1 <= Len(text) /\ SubSeq(text, i, i + Len(e) - 1) = e

\* The texts the document put into the page: every cell of the four
\* containers and every chart label.
CellTexts(block) == {block.cells[k].text : k \in 1..Len(block.cells)}

HtmlTexts(html) == UNION {CellTexts(html[b]) : b \in 1..Len(html)}

PageTexts ==
  UNION {HtmlTexts(containers[c].html) : c \in Sections}
  \cup (IF netChart = <<>> THEN {}
        ELSE {netChart[1][i].name : i \in 1..Len(netChart[1])})

\* C8: every value of the document that renderAll or drawBars interpolates
\* into markup has passed through esc: no text in the page carries a raw
\* HTML-significant character.
C8_EveryInterpolationEscaped ==
  event.type = "json" => \A t \in PageTexts : Escaped(t)

\* The documents of C9: the full report with one field missing, one list or
\* object missing or empty, or a URL that does not parse.
MissingDocs ==
  FieldDocs({Undef}) \cup PartDocs
  \cup {WithNet(BaseDoc, <<SetField(BaseNet, "url", v)>>) :
          v \in {Str(<<"n", "o", " ", "u", "r", "l">>), Str(LongHost)}}

\* C9: a success document with a field missing is rendered through all four
\* sections (short never throws) and no missing field is displayed other
\* than by a default or by nothing: the page nowhere reads 'undefined'.
C9_MissingFieldsDegradeGracefully ==
  (event.type = "json" /\ event.data \in MissingDocs)
  => /\ uploads[event.by].pc = "rendered"
     /\ \A c \in {"meta", "archive", "matrix"} : containers[c].display = "block"
     /\ HasRequests(event.data)
        => containers["network"].display = "block" /\ netChart # <<>>
     /\ StringOf(Undef) \notin PageTexts

Min(a, b) == IF a < b THEN a ELSE b

Abs(x) == IF x < 0 THEN -x ELSE x

\* C10: for n >= 1 network requests with non-negative integer sizes (missing
\* bytes count as 0) the chart has min(n, 12) rows, the first 12 requests in
\* input order, and the table n rows in input order; each width is the tenth
\* of a percent nearest to size/max*100 with max the largest charted size or
\* 1, lies in [0, 100], and is 0 when every charted size is 0.
C10_ChartRowsAndWidths ==
  (event.type = "json" /\ HasRequests(event.data))
  => LET net == event.data.runtime[1].network_requests[1]
         n == Len(net)
         m == Min(n, ChartMax)
         size(i) == IF net[i].bytes = Undef THEN 0 ELSE net[i].bytes.n
         max == CHOOSE x \in {size(i) : i \in 1..m} \cup {1} :
                  \A y \in {size(i) : i \in 1..m} \cup {1} : y <= x
         label(i) == <<"h", "/">> \o Digits(i)
         html == containers["network"].html
         trs == {b \in 1..Len(html) : html[b].tag = "tr"}
     IN /\ netChart # <<>>
        /\ Len(netChart[1]) = m
        /\ Cardinality(trs) = n
        /\ \A b \in trs : \E i \in 1..n :
             /\ Cardinality({a \in trs : a <= b}) = i
             /\ html[b].cells[1].text = label(i)
        /\ \A i \in 1..m :
             LET row == netChart[1][i]
             IN /\ row.name = label(i)
                /\ 2 * Abs(row.width * max - 1000 * size(i)) <= max
                /\ 0 <= row.width /\ row.width <= 1000
                /\ (\A j \in 1..m : size(j) = 0) => row.width = 0

\* C10 witness: more than 12 requests; the largest size is beyond the 12th and
\* is not charted, so that a charted request of size 1 fills its bar, while a
\* missing size draws an empty one.
C10_Witness ==
  /\ event.type = "json" /\ HasRequests(event.data)
  /\ LET net == event.data.runtime[1].network_requests[1]
     IN /\ Len(net) = ChartMax + 1
        /\ net[ChartMax + 1].bytes = Num(3)
        /\ net[2].bytes = Num(1) /\ net[1].bytes = Undef
        /\ Len(netChart[1]) = ChartMax
        /\ netChart[1][2].width = 1000 /\ netChart[1][1].width = 0

====
